---- MODULE Spec2Model ----
(***************************************************************************)
(* Block-stacking game logic (GameLogic, Block, PhysicsManager,            *)
(* RenderManager, StackGame.animate) as a state machine.                   *)
(*                                                                         *)
(* Numbers.  The program computes with JavaScript numbers.  The model      *)
(* keeps every length and coordinate as an integer count of 1/Scale game   *)
(* units (fixed point); Scale is a power of two large enough that every    *)
(* halving the code performs within the bounds below is exact.  Time is    *)
(* in milliseconds.  A mass is kept as its numerator over                  *)
(* (ORIGINAL_BOX_SIZE * Scale)^2.                                          *)
(***************************************************************************)
EXTENDS Integers, Sequences, FiniteSets, TLC

VARIABLES
    stack,          \* GameLogic.stack: sequence of blocks, bottom to top
    overhangs,      \* GameLogic.overhangs: sequence of falling blocks
    isAutopilot,    \* GameLogic.isAutopilot
    isGameEnded,    \* GameLogic.isGameEnded
    score,          \* GameLogic.score
    robotPrecision, \* GameLogic.robotPrecision (fixed point)
    world,          \* PhysicsManager.world.bodies: set of body handles
    scene,          \* RenderManager.scene: set of mesh handles
    cameraY,        \* RenderManager.camera.position.y (fixed point)
    emitted,        \* notifications emitted by the last step, in order
    calls,          \* methods of GameLogic entered by the last step, in order
    split,          \* locals of the last step's splitBlockAndAddNext
    framePc,        \* position inside StackGame.animate
    frameDt,        \* deltaTime of the frame in progress (ms)
    frameTs,        \* currentTime of the frame in progress (ms)
    isRunning,      \* StackGame.isRunning
    lastTime,       \* StackGame.lastTime (ms)
    animationId,    \* StackGame.animationId (0 is null)
    rafPending,     \* handles of the callbacks requestAnimationFrame holds
    physicsInitialized, \* PhysicsManager.isInitialized (world is non-null)
    renderInitialized,  \* RenderManager.isInitialized
    subscribed,     \* gameEvents holds GameLogic's listeners
    thrown,         \* message of the error the last step threw, "" if none
    uiScore,        \* UIManager.score
    listeners,      \* EventSystem.listeners of an instance used on its own:
                    \* event name -> its callbacks in subscription order
    unsubscribers,  \* the unsubscribe functions on() has returned so far
    lastCall        \* what the last call into that EventSystem did

gameVars == <<stack, overhangs, isAutopilot, isGameEnded, score, robotPrecision,
          world, scene, cameraY, emitted, calls, split, framePc, frameDt,
          frameTs, isRunning, lastTime, animationId, rafPending,
          physicsInitialized, renderInitialized, subscribed, thrown, uiScore>>

busVars == <<listeners, unsubscribers, lastCall>>

vars == <<gameVars, busVars>>

---------------------------------------------------------------------------
(* Bounds of the model *)

MaxStack == 4
MaxDtSteps == 4
PrecisionSteps == 2
MaxFall == 1

---------------------------------------------------------------------------
(* Program constants *)

Scale == 2 * 2 * 2 * 2

BOX_HEIGHT == 1
ORIGINAL_BOX_SIZE == 3
BOX_FALL_MASS == 5
ROBOT_PRECISION_RANGE == 1
MOVEMENT_SPEED_PER_S == 8
CAMERA_FOLLOW_SPEED_PER_S == 80
SPAWN_OFFSET == -10
OUT_OF_BOUNDS == 10
CAMERA_START_Y == 4

DIRECTIONS == [X |-> "x", Z |-> "z"]
NullDirection == "null"

EVENTS == [GAME_START |-> "game_start", GAME_OVER |-> "game_over",
           SCORE_UPDATE |-> "score_update", LAYER_ADDED |-> "layer_added"]

\* Math.abs, Math.sign
Abs(v) == IF v < 0 THEN -v ELSE v
\* Math.sign dropped: the overhang is always put on the positive side
Sign_AlwaysPositive(v) == 1

Sign(v) == IF v > 0 THEN 1 ELSE IF v < 0 THEN -1 ELSE 0

\* v / 2 on fixed-point values
Half(v) == v \div 2

---------------------------------------------------------------------------
(* Inputs *)

\* one game unit of travel takes 1000 / 8 ms
DtQuantum == 1000 \div MOVEMENT_SPEED_PER_S
\* a frame of no duration, a frame of one quantum, and one long frame (a hitch)
DtSet == { 0, DtQuantum, MaxDtSteps * DtQuantum }

\* Math.random() * ROBOT_PRECISION_RANGE - 0.5, Math.random() in [0, 1)
Precisions ==
    { (k * ROBOT_PRECISION_RANGE * Scale) \div PrecisionSteps - Half(Scale) :
        k \in 0..(PrecisionSteps - 1) }

IdBound == 2 * MaxStack + 2

\* Timestamps.  The code reads them only through differences and through
\* lastTime > 0, so the model keeps them relative to a moving origin: when a
\* frame has run, the origin is moved so that its timestamp reads Epoch.
Epoch == 8 * DtQuantum
Rebased(ts) == IF ts > 0 THEN Epoch ELSE 0

NotInitialized == "PhysicsManager not initialized"

---------------------------------------------------------------------------
(* Block (entities/block.js) and the body PhysicsManager creates for it *)

Pose(px, py, pz) == [x |-> px, y |-> py, z |-> pz, rot |-> 0]

createBoxBodyMass(width, depth, isDynamic) ==
    IF isDynamic THEN BOX_FALL_MASS * width * depth ELSE 0

Block(id, px, py, pz, width, depth, direction, isDynamic) ==
    [ id |-> id, x |-> px, y |-> py, z |-> pz,
      width |-> width, depth |-> depth, direction |-> direction,
      mass |-> createBoxBodyMass(width, depth, isDynamic),
      body |-> Pose(px, py, pz), mesh |-> Pose(px, py, pz),
      isFalling |-> FALSE ]

getPosition(b, direction) == IF direction = DIRECTIONS.X THEN b.x ELSE b.z

getSize(b, direction) == IF direction = DIRECTIONS.X THEN b.width ELSE b.depth

\* >= where the code has >: a block on the bound is out of bounds
isOutOfBounds_OnTheBound(b) == Abs(getPosition(b, b.direction)) >= OUT_OF_BOUNDS * Scale

isOutOfBounds(b) == Abs(getPosition(b, b.direction)) > OUT_OF_BOUNDS * Scale

\* the mesh and the logical position moved, the physics body left behind
updatePosition_SkipsBody(b, direction, delta) ==
    IF direction = DIRECTIONS.X
    THEN [b EXCEPT !.x = @ + delta, !.mesh.x = @ + delta]
    ELSE [b EXCEPT !.z = @ + delta, !.mesh.z = @ + delta]

updatePosition(b, direction, delta) ==
    IF direction = DIRECTIONS.X
    THEN [b EXCEPT !.x = @ + delta, !.mesh.x = @ + delta, !.body.x = @ + delta]
    ELSE [b EXCEPT !.z = @ + delta, !.mesh.z = @ + delta, !.body.z = @ + delta]

\* the block resized where it stands, not moved onto the overlap
cut_KeepsPosition(b, overlap, originalSize, delta) ==
    [b EXCEPT !.width = (IF b.direction = DIRECTIONS.X THEN overlap ELSE b.width),
              !.depth = (IF b.direction = DIRECTIONS.Z THEN overlap ELSE b.depth)]

cut_KeepsSize(b, overlap, originalSize, delta) ==
    updatePosition(b, b.direction, -Half(delta))
cut(b, overlap, originalSize, delta) ==
    LET newWidth == IF b.direction = DIRECTIONS.X THEN overlap ELSE b.width
        newDepth == IF b.direction = DIRECTIONS.Z THEN overlap ELSE b.depth
        sized == [b EXCEPT !.width = newWidth, !.depth = newDepth]
    IN  updatePosition(sized, b.direction, -Half(delta))

startFalling(b) == [b EXCEPT !.isFalling = TRUE]

updateFromPhysics(b) == [b EXCEPT !.mesh = b.body]

---------------------------------------------------------------------------
(* EventSystem, as a class of its own.  A callback is a function of the  *)
(* client: it may return, throw, or call back into the EventSystem.  The  *)
(* callbacks of one event are a JavaScript Set: Set.add appends unless    *)
(* the value is present, Set.delete leaves an empty entry behind, and     *)
(* Set.forEach walks the entries by index, skips the empty ones and       *)
(* visits entries appended while it runs.                                 *)

Callbacks == {"a", "b"}
BusEvents == {EVENTS.GAME_START, EVENTS.SCORE_UPDATE}
Payloads == {"null", "payload"}
EmptyEntry == "empty"
NoCallback == "none"

\* what one invocation of a callback does
Behaviours ==
    [kind : {"returns", "throws"}, target : {NoCallback}]
        \cup [kind : {"subscribes", "unsubscribes"}, target : Callbacks]

\* Set.prototype.has
has(entries, cb) == \E i \in 1..Len(entries) : entries[i] = cb

\* Set.prototype.add
add(entries, cb) == IF has(entries, cb) THEN entries ELSE Append(entries, cb)

\* Set.prototype.delete
delete(entries, cb) ==
    [i \in 1..Len(entries) |-> IF entries[i] = cb THEN EmptyEntry ELSE entries[i]]

\* the values of a Set, in insertion order
Values(entries) == SelectSeq(entries, LAMBDA x : x # EmptyEntry)

NoCall ==
    [op |-> "none", event |-> "none", callback |-> NoCallback, data |-> "null",
     invoked |-> <<>>, caught |-> <<>>, propagated |-> FALSE, changed |-> FALSE]

\* the state of one emit: the Set being walked, the invocations made, the
\* errors caught and logged, whether an error left emit, whether a callback
\* changed the Set
Walk(entries) ==
    [entries |-> entries, invoked |-> <<>>, caught |-> <<>>,
     propagated |-> FALSE, changed |-> FALSE]

\* callback(data) for the callback cb, which behaves as b
invoke(r, cb, b, data) ==
    LET r1 == [r EXCEPT !.invoked = Append(@, [callback |-> cb, data |-> data])]
        e1 == IF b.kind = "subscribes" THEN add(r1.entries, b.target)
              ELSE IF b.kind = "unsubscribes" THEN delete(r1.entries, b.target)
              ELSE r1.entries
    IN  [r1 EXCEPT !.entries = e1,
                   !.changed = @ \/ (e1 # r1.entries),
                   !.caught = IF b.kind = "throws" THEN Append(@, cb) ELSE @]

\* forEach without the try/catch: the first error leaves emit
RECURSIVE forEach_NoCatch(_, _, _, _)
forEach_NoCatch(r, i, beh, data) ==
    IF i > Len(r.entries) THEN r
    ELSE IF r.entries[i] = EmptyEntry THEN forEach_NoCatch(r, i + 1, beh, data)
    ELSE IF beh[r.entries[i]].kind = "throws"
         THEN [invoke(r, r.entries[i], beh[r.entries[i]], data) EXCEPT
                   !.caught = r.caught, !.propagated = TRUE]
    ELSE forEach_NoCatch(invoke(r, r.entries[i], beh[r.entries[i]], data), i + 1, beh, data)

\* eventListeners.forEach(callback => { try { callback(data) } catch ... }),
\* from entry i on
RECURSIVE forEach(_, _, _, _)
forEach(r, i, beh, data) ==
    IF i > Len(r.entries) THEN r
    ELSE IF r.entries[i] = EmptyEntry THEN forEach(r, i + 1, beh, data)
    ELSE forEach(invoke(r, r.entries[i], beh[r.entries[i]], data), i + 1, beh, data)

---------------------------------------------------------------------------
(* The engine state as one record, threaded through the methods *)

NoSplit == [called |-> FALSE, size |-> 0, delta |-> 0, overhangSize |-> 0, overlap |-> 0]

Cur ==
    [ stack |-> stack, overhangs |-> overhangs, isAutopilot |-> isAutopilot,
      isGameEnded |-> isGameEnded, score |-> score,
      robotPrecision |-> robotPrecision, world |-> world, scene |-> scene,
      cameraY |-> cameraY, emitted |-> <<>>, calls |-> <<>>, split |-> NoSplit,
      physicsInitialized |-> physicsInitialized,
      renderInitialized |-> renderInitialized, thrown |-> "",
      subscribed |-> subscribed, uiScore |-> uiScore ]

Commit(g) ==
    /\ stack' = g.stack
    /\ overhangs' = g.overhangs
    /\ isAutopilot' = g.isAutopilot
    /\ isGameEnded' = g.isGameEnded
    /\ score' = g.score
    /\ robotPrecision' = g.robotPrecision
    /\ world' = g.world
    /\ scene' = g.scene
    /\ cameraY' = g.cameraY
    /\ emitted' = g.emitted
    /\ calls' = g.calls
    /\ split' = g.split
    /\ physicsInitialized' = g.physicsInitialized
    /\ renderInitialized' = g.renderInitialized
    /\ thrown' = g.thrown
    /\ uiScore' = g.uiScore
    /\ UNCHANGED busVars

Enter(g, name) == [g EXCEPT !.calls = Append(@, name)]

\* UIManager.updateScore
updateScore(g, newScore) == [g EXCEPT !.uiScore = newScore]

\* UIManager.showGameUI
showGameUI(g) == updateScore(g, 0)

\* UIManager.resetUI
resetUI(g) == updateScore(g, 0)

\* gameEvents.emit: the notification is recorded and UIManager's listeners
\* for it run (setupGameEventListeners), while the bus holds listeners
emit(g, name, data) ==
    LET g1 == [g EXCEPT !.emitted = Append(@, [name |-> name, data |-> data])]
    IN  IF ~g.subscribed THEN g1
        ELSE IF name = "score_update" THEN updateScore(g1, data)
        ELSE IF name = "game_start" THEN showGameUI(g1)
        ELSE g1

Top(g) == g.stack[Len(g.stack)]
Previous(g) == g.stack[Len(g.stack) - 1]

UsedIds(g) ==
    g.world \cup g.scene
      \cup { g.stack[i].id : i \in 1..Len(g.stack) }
      \cup { g.overhangs[i].id : i \in 1..Len(g.overhangs) }

FreshId(g) == CHOOSE i \in 1..IdBound : i \notin UsedIds(g) /\ \A j \in 1..(i - 1) : j \in UsedIds(g)

---------------------------------------------------------------------------
(* GameLogic (game/game_logic.js) *)

\* createBoxBody throws on a manager that is not initialized; the error
\* leaves createBlock and its callers at once
createBlock(g, px, py, pz, width, depth, direction, isDynamic) ==
    LET g0 == Enter(g, "PhysicsManager.createBoxBody")
        b == Block(FreshId(g0), px, py, pz, width, depth, direction, isDynamic)
    IN  IF ~g0.physicsInitialized
        THEN [ g |-> [g0 EXCEPT !.thrown = NotInitialized], block |-> b ]
        ELSE [ g |-> [g0 EXCEPT !.world = @ \cup {b.id}, !.scene = @ \cup {b.id}],
               block |-> b ]

\* height taken from the length after the push instead of before it
addLayer_OneTooHigh(g, px, pz, width, depth, direction) ==
    LET py == BOX_HEIGHT * Scale * (Len(g.stack) + 1)
        made == createBlock(g, px, py, pz, width, depth, direction, FALSE)
        pushed == [made.g EXCEPT !.stack = Append(@, made.block)]
    IN  IF made.g.thrown # "" THEN made.g
        ELSE emit(pushed, EVENTS.LAYER_ADDED, Len(pushed.stack))

addLayer(g, px, pz, width, depth, direction) ==
    LET py == BOX_HEIGHT * Scale * Len(g.stack)
        made == createBlock(g, px, py, pz, width, depth, direction, FALSE)
        pushed == [made.g EXCEPT !.stack = Append(@, made.block)]
    IN  IF made.g.thrown # "" THEN made.g
        ELSE emit(pushed, EVENTS.LAYER_ADDED, Len(pushed.stack))

addOverhang(g, px, pz, width, depth) ==
    LET py == BOX_HEIGHT * Scale * (Len(g.stack) - 1)
        made == createBlock(g, px, py, pz, width, depth, NullDirection, TRUE)
    IN  [made.g EXCEPT !.overhangs = Append(@, startFalling(made.block))]

\* the blocks dropped without clearing the physics world
clearGame_KeepsBodies(g) ==
    LET g0 == Enter(g, "PhysicsManager.clearBodies")
    IN  [g0 EXCEPT !.scene = {}, !.stack = <<>>, !.overhangs = <<>>]

\* clearBodies returns silently when the world is null
clearGame(g) ==
    LET g0 == Enter(g, "PhysicsManager.clearBodies")
    IN  [g0 EXCEPT !.world = {}, !.scene = {}, !.stack = <<>>, !.overhangs = <<>>]

resetCamera(g) == [g EXCEPT !.cameraY = CAMERA_START_Y * Scale]

startGame_KeepsScore(g) ==
    LET g0 == Enter(g, "startGame")
        g1 == [g0 EXCEPT !.isAutopilot = FALSE, !.isGameEnded = FALSE,
                         !.stack = <<>>, !.overhangs = <<>>]
        g2 == resetCamera(clearGame(g1))
        g3 == addLayer(g2, 0, 0, ORIGINAL_BOX_SIZE * Scale, ORIGINAL_BOX_SIZE * Scale,
                       NullDirection)
        g4 == IF g3.thrown # "" THEN g3
              ELSE addLayer(g3, SPAWN_OFFSET * Scale, 0, ORIGINAL_BOX_SIZE * Scale,
                            ORIGINAL_BOX_SIZE * Scale, DIRECTIONS.X)
        g5 == emit(g4, EVENTS.GAME_START, -1)
    IN  IF g4.thrown # "" THEN g4 ELSE emit(g5, EVENTS.SCORE_UPDATE, g5.score)

startGame(g) ==
    LET g0 == Enter(g, "startGame")
        g1 == [g0 EXCEPT !.isAutopilot = FALSE, !.isGameEnded = FALSE,
                         !.score = 0, !.stack = <<>>, !.overhangs = <<>>]
        g2 == resetCamera(clearGame(g1))
        g3 == addLayer(g2, 0, 0, ORIGINAL_BOX_SIZE * Scale, ORIGINAL_BOX_SIZE * Scale,
                       NullDirection)
        g4 == IF g3.thrown # "" THEN g3
              ELSE addLayer(g3, SPAWN_OFFSET * Scale, 0, ORIGINAL_BOX_SIZE * Scale,
                            ORIGINAL_BOX_SIZE * Scale, DIRECTIONS.X)
        g5 == emit(g4, EVENTS.GAME_START, -1)
    IN  IF g4.thrown # "" THEN g4 ELSE emit(g5, EVENTS.SCORE_UPDATE, g5.score)

\* Array.prototype.pop on the stack
pop_KeepsTop(s) == s
pop(s) == SubSeq(s, 1, Len(s) - 1)

gameOverIsNotified_Never(g) == FALSE
gameOverIsNotified_Always(g) == TRUE
gameOverIsNotified(g) == ~g.isAutopilot

missBlock(g) ==
    LET g0 == Enter(g, "missBlock")
        topLayer == Top(g0)
        g1 == addOverhang(g0, topLayer.x, topLayer.z, topLayer.width, topLayer.depth)
        g2 == [g1 EXCEPT !.world = @ \ {topLayer.id},
                         !.scene = @ \ {topLayer.id},
                         !.stack = pop(@),
                         !.isGameEnded = TRUE]
    IN  IF gameOverIsNotified(g2) THEN emit(g2, EVENTS.GAME_OVER, -1) ELSE g2

nextDirection_Same(direction) == direction
nextDirection(direction) ==
    IF direction = DIRECTIONS.X THEN DIRECTIONS.Z ELSE DIRECTIONS.X

\* the score a cut publishes, from the stack length before the next layer is added
placedScore_OffByOne(stackLength) == stackLength
placedScore(stackLength) == stackLength - 1

cutAndContinue(g, overlap, size, delta, overhangSize, direction) ==
    LET g0 == Enter(g, "cutAndContinue")
        n == Len(g0.stack)
        topLayer == cut(g0.stack[n], overlap, size, delta)
        g1 == [g0 EXCEPT !.stack[n] = topLayer]
        overhangShift == (Half(overlap) + Half(overhangSize)) * Sign(delta)
        overhangX == IF direction = DIRECTIONS.X THEN topLayer.x + overhangShift
                     ELSE topLayer.x
        overhangZ == IF direction = DIRECTIONS.Z THEN topLayer.z + overhangShift
                     ELSE topLayer.z
        overhangWidth == IF direction = DIRECTIONS.X THEN overhangSize ELSE topLayer.width
        overhangDepth == IF direction = DIRECTIONS.Z THEN overhangSize ELSE topLayer.depth
        g2 == addOverhang(g1, overhangX, overhangZ, overhangWidth, overhangDepth)
        nextX == IF direction = DIRECTIONS.X THEN topLayer.x ELSE SPAWN_OFFSET * Scale
        nextZ == IF direction = DIRECTIONS.Z THEN topLayer.z ELSE SPAWN_OFFSET * Scale
        g3 == [g2 EXCEPT !.score = placedScore(Len(g2.stack))]
        g4 == emit(g3, EVENTS.SCORE_UPDATE, g3.score)
    IN  addLayer(g4, nextX, nextZ, topLayer.width, topLayer.depth,
                 nextDirection(direction))

isCut_AtZero(overlap) == overlap >= 0
isCut(overlap) == overlap > 0

placementIsIgnored_EndedForgotten(g) == Len(g.stack) < 2
placementIsIgnored(g) == g.isGameEnded \/ Len(g.stack) < 2

splitBlockAndAddNext(g) ==
    LET g0 == Enter(g, "splitBlockAndAddNext")
    IN  IF placementIsIgnored(g0) THEN g0
        ELSE
          LET topLayer == Top(g0)
              previousLayer == Previous(g0)
              direction == topLayer.direction
              size == getSize(topLayer, direction)
              delta == getPosition(topLayer, direction)
                         - getPosition(previousLayer, direction)
              overhangSize == Abs(delta)
              overlap == size - overhangSize
              g1 == [g0 EXCEPT !.split = [called |-> TRUE, size |-> size,
                                          delta |-> delta,
                                          overhangSize |-> overhangSize,
                                          overlap |-> overlap]]
          IN  IF isCut(overlap)
              THEN cutAndContinue(g1, overlap, size, delta, overhangSize, direction)
              ELSE missBlock(g1)

\* the autopilot check dropped: every placement input places the block
handleBlockPlacement_AlwaysSplits(g) ==
    splitBlockAndAddNext(Enter(g, "handleBlockPlacement"))

handleBlockPlacement(g) ==
    LET g0 == Enter(g, "handleBlockPlacement")
    IN  IF g0.isAutopilot THEN startGame(g0) ELSE splitBlockAndAddNext(g0)

\* the camera put on the follow line, wherever it was
updateCameraPosition_Snaps(g, targetY, deltaTime) ==
    [g EXCEPT !.cameraY = targetY + 4 * Scale]

updateCameraPosition(g, targetY, deltaTime) ==
    IF g.cameraY < targetY + 4 * Scale
    THEN [g EXCEPT !.cameraY = @ + (CAMERA_FOLLOW_SPEED_PER_S * deltaTime * Scale) \div 1000]
    ELSE g

\* <= where the code has <: the robot moves on from the target
shouldBlockMove_PastTarget(g, topLayer, previousLayer) ==
    IF g.isGameEnded THEN FALSE
    ELSE IF ~g.isAutopilot THEN TRUE
    ELSE getPosition(topLayer, topLayer.direction)
           <= getPosition(previousLayer, topLayer.direction) + g.robotPrecision

shouldBlockMove(g, topLayer, previousLayer) ==
    IF g.isGameEnded THEN FALSE
    ELSE IF ~g.isAutopilot THEN TRUE
    ELSE getPosition(topLayer, topLayer.direction)
           < getPosition(previousLayer, topLayer.direction) + g.robotPrecision

\* the block advanced by a fixed step per frame, whatever the frame took
moveDistance_PerFrame(deltaTime) == (MOVEMENT_SPEED_PER_S * DtQuantum * Scale) \div 1000

\* speed * deltaTime, in fixed point
moveDistance(deltaTime) == (MOVEMENT_SPEED_PER_S * deltaTime * Scale) \div 1000

moveBlock(g, deltaTime) ==
    LET g0 == Enter(g, "moveBlock")
        n == Len(g0.stack)
        delta == moveDistance(deltaTime)
    IN  [g0 EXCEPT !.stack[n] = updatePosition(@, @.direction, delta)]

updateOverhangs(g) ==
    LET g0 == Enter(g, "updateOverhangs")
    IN  [g0 EXCEPT !.overhangs =
            [i \in 1..Len(g0.overhangs) |-> updateFromPhysics(g0.overhangs[i])]]

setRobotPrecision(g, r) == [g EXCEPT !.robotPrecision = r]

update(g, deltaTime, r) ==
    LET g0 == Enter(g, "update")
    IN  IF Len(g0.stack) < 2 THEN g0
        ELSE
          LET g1 == updateCameraPosition(g0, BOX_HEIGHT * Scale * (Len(g0.stack) - 2),
                                         deltaTime)
              shouldMove == shouldBlockMove(g1, Top(g1), Previous(g1))
              g2 == IF shouldMove
                    THEN LET moved == moveBlock(g1, deltaTime)
                         IN  IF isOutOfBounds(Top(moved)) THEN missBlock(moved)
                             ELSE moved
                    ELSE IF g1.isAutopilot
                         THEN setRobotPrecision(splitBlockAndAddNext(g1), r)
                         ELSE g1
          IN  updateOverhangs(g2)

---------------------------------------------------------------------------
(* PhysicsManager.step: the rigid-body engine is an external collaborator. *)
(* A body in the world with nonzero mass is dynamic: a step of positive    *)
(* duration lets it fall and tumble by one notch until it has come to rest *)
(* after MaxFall notches; a body of mass 0 is static; a step of duration 0 *)
(* moves nothing.                                                          *)

stepBody(b, deltaTime) ==
    IF deltaTime > 0 /\ b.mass > 0 /\ b.body.rot < MaxFall
    THEN [b EXCEPT !.body.y = @ - Scale, !.body.rot = @ + 1]
    ELSE b

\* step returns silently when the manager is not initialized
step(g, deltaTime) ==
    LET g0 == Enter(g, "PhysicsManager.step")
    IN  IF ~g0.physicsInitialized THEN g0
        ELSE [g0 EXCEPT !.overhangs =
                [i \in 1..Len(g0.overhangs) |->
                    IF g0.overhangs[i].id \in g0.world
                    THEN stepBody(g0.overhangs[i], deltaTime)
                    ELSE g0.overhangs[i]]]

\* RenderManager.render draws the scene; when the manager is not initialized
\* it warns on the console and returns
render(g) == Enter(g, "RenderManager.render")

---------------------------------------------------------------------------
(* Initial state: GameLogic constructed and initialize() called *)

initialize(g) ==
    LET g1 == addLayer(g, 0, 0, ORIGINAL_BOX_SIZE * Scale, ORIGINAL_BOX_SIZE * Scale,
                       NullDirection)
    IN  addLayer(g1, SPAWN_OFFSET * Scale, 0, ORIGINAL_BOX_SIZE * Scale,
                 ORIGINAL_BOX_SIZE * Scale, DIRECTIONS.X)

Constructed(r) ==
    [ stack |-> <<>>, overhangs |-> <<>>, isAutopilot |-> TRUE,
      isGameEnded |-> FALSE, score |-> 0, robotPrecision |-> r,
      world |-> {}, scene |-> {}, cameraY |-> CAMERA_START_Y * Scale,
      emitted |-> <<>>, calls |-> <<>>, split |-> NoSplit,
      physicsInitialized |-> TRUE, renderInitialized |-> TRUE, thrown |-> "",
      subscribed |-> TRUE, uiScore |-> 0 ]

\* The state in which StackGame.initialize returns: managers initialized,
\* GameLogic constructed and initialized, and start() has run the first frame
\* (animate(0), deltaTime 0, which moves nothing) and requested the next one.
InitWith(rs) ==
    \E r \in rs :
        LET g == initialize(Constructed(r))
        IN  /\ stack = g.stack
            /\ overhangs = g.overhangs
            /\ isAutopilot = g.isAutopilot
            /\ isGameEnded = g.isGameEnded
            /\ score = g.score
            /\ robotPrecision = g.robotPrecision
            /\ world = g.world
            /\ scene = g.scene
            /\ cameraY = g.cameraY
            /\ emitted = g.emitted
            /\ calls = <<"initialize">>
            /\ split = g.split
            /\ physicsInitialized = g.physicsInitialized
            /\ renderInitialized = g.renderInitialized
            /\ thrown = g.thrown
            /\ uiScore = resetUI(g).uiScore
            /\ listeners = [e \in BusEvents |-> <<>>]
            /\ unsubscribers = {}
            /\ lastCall = NoCall
            /\ subscribed = TRUE
            /\ framePc = "idle"
            /\ frameDt = 0
            /\ frameTs = 0
            /\ isRunning = TRUE
            /\ lastTime = 0
            /\ animationId = 1
            /\ rafPending = {1}

Init == InitWith(Precisions)

---------------------------------------------------------------------------
(* Actions.  Handlers run to completion: an input event is only delivered *)
(* between frames, never inside StackGame.animate.                         *)

loopVars == <<isRunning, lastTime, animationId, rafPending>>

\* BLOCK_PLACED (mouse, touch or space key) -> GameLogic.handleBlockPlacement
BlockPlaced ==
    /\ framePc = "idle"
    /\ subscribed
    /\ LET g == handleBlockPlacement(Cur)
       IN  /\ Len(g.stack) <= MaxStack
           /\ Commit(g)
    /\ UNCHANGED <<framePc, frameDt, frameTs, subscribed>>
    /\ UNCHANGED loopVars

\* GAME_RESET (results click) or StackGame.restart -> GameLogic.startGame
GameReset ==
    /\ framePc = "idle"
    /\ Commit(startGame(IF subscribed THEN resetUI(Cur) ELSE Cur))
    /\ UNCHANGED <<framePc, frameDt, frameTs, subscribed>>
    /\ UNCHANGED loopVars

\* deltaTime taken without looking whether there is a last tick
animateBegins_NoBaseline(last, currentTime, r) ==
    LET deltaTime == currentTime - last
        g == update(Cur, deltaTime, r)
    IN  /\ Len(g.stack) <= MaxStack
        /\ Commit(g)
        /\ frameDt' = deltaTime
        /\ frameTs' = currentTime
        /\ lastTime' = Rebased(currentTime)
        /\ framePc' = "updated"

\* StackGame.animate(currentTime) up to and including gameLogic.update, when
\* this.lastTime is last
animateBegins(last, currentTime, r) ==
    LET deltaTime == IF last > 0 THEN currentTime - last ELSE 0
        g == update(Cur, deltaTime, r)
    IN  /\ Len(g.stack) <= MaxStack
        /\ Commit(g)
        /\ frameDt' = deltaTime
        /\ frameTs' = currentTime
        /\ lastTime' = Rebased(currentTime)
        /\ framePc' = "updated"

\* the timestamps requestAnimationFrame can pass when the time elapsed since
\* the last tick is in dts; after start() there is no last tick, and animate
\* reads that timestamp only to store it
Timestamps(dts) == IF lastTime > 0 THEN { lastTime + d : d \in dts } ELSE { Epoch }

\* The browser runs a requested animation frame: StackGame.animate, first
\* phase.  A callback that finds the loop not running returns at once.
FrameUpdateWith(dts, rs) ==
    /\ framePc = "idle"
    /\ \E h \in rafPending :
         /\ rafPending' = rafPending \ {h}
         /\ IF isRunning
            THEN \E ts \in Timestamps(dts), r \in rs : animateBegins(lastTime, ts, r)
            ELSE /\ Commit(Cur)
                 /\ UNCHANGED <<framePc, frameDt, frameTs, lastTime>>
    /\ UNCHANGED <<isRunning, animationId, subscribed>>

FrameUpdate == FrameUpdateWith(DtSet, Precisions)

\* the physics step run without the frame's deltaTime
FramePhysics_NoDeltaTime ==
    /\ framePc = "updated"
    /\ Commit(step(Cur, 0))
    /\ framePc' = "stepped"
    /\ UNCHANGED <<frameDt, frameTs, subscribed>>
    /\ UNCHANGED loopVars

\* StackGame.animate, second phase: physicsManager.step(deltaTime)
FramePhysics ==
    /\ framePc = "updated"
    /\ Commit(step(Cur, frameDt))
    /\ framePc' = "stepped"
    /\ UNCHANGED <<frameDt, frameTs, subscribed>>
    /\ UNCHANGED loopVars

\* the handle requestAnimationFrame returns: one no pending callback has
requestAnimationFrame ==
    CHOOSE h \in 1..(Cardinality(rafPending) + 1) : h \notin rafPending

\* What follows the return of animate: nothing for a frame the browser ran;
\* for the animate(0) that start() calls (the only frame with timestamp 0),
\* the rest of start(), uiManager.resetUI()
afterAnimate(g) == IF frameTs = 0 THEN resetUI(g) ELSE g

\* StackGame.animate, third phase: renderManager.render(), then the next
\* frame is requested
FrameRender ==
    /\ framePc = "stepped"
    /\ Commit(afterAnimate(render(Cur)))
    /\ framePc' = "idle"
    /\ frameDt' = 0
    /\ frameTs' = 0
    /\ animationId' = requestAnimationFrame
    /\ rafPending' = rafPending \cup {requestAnimationFrame}
    /\ UNCHANGED <<isRunning, lastTime, subscribed>>

\* pause that leaves the requested frame pending
Pause_KeepsCallback ==
    /\ framePc = "idle"
    /\ isRunning
    /\ isRunning' = FALSE
    /\ Commit(Cur)
    /\ UNCHANGED <<framePc, frameDt, frameTs, lastTime, subscribed>>
    /\ UNCHANGED <<animationId, rafPending>>

\* StackGame.pause (the document became hidden)
Pause ==
    /\ framePc = "idle"
    /\ isRunning
    /\ isRunning' = FALSE
    /\ rafPending' = (IF animationId # 0 THEN rafPending \ {animationId} ELSE rafPending)
    /\ animationId' = 0
    /\ Commit(Cur)
    /\ UNCHANGED <<framePc, frameDt, frameTs, lastTime, subscribed>>

\* StackGame.resume -> start (the document became visible again): the loop
\* runs again, lastTime is 0 and animate(0) is called at once
Resume ==
    /\ framePc = "idle"
    /\ ~isRunning
    /\ isRunning' = TRUE
    /\ \E r \in Precisions : animateBegins(0, 0, r)
    /\ UNCHANGED <<animationId, rafPending, subscribed>>

\* StackGame.dispose: pause, drop every listener, clear the game, dispose
\* the managers
Dispose ==
    /\ framePc = "idle"
    /\ isRunning' = FALSE
    /\ rafPending' = (IF isRunning /\ animationId # 0 THEN rafPending \ {animationId}
                      ELSE rafPending)
    /\ animationId' = (IF isRunning THEN 0 ELSE animationId)
    /\ subscribed' = FALSE
    /\ Commit([clearGame(Cur) EXCEPT !.physicsInitialized = FALSE,
                                     !.renderInitialized = FALSE])
    /\ UNCHANGED <<framePc, frameDt, frameTs, lastTime>>

Next ==
    \/ BlockPlaced \/ GameReset
    \/ FrameUpdate \/ FramePhysics \/ FrameRender
    \/ Pause \/ Resume

Spec == Init /\ [][Next]_vars

\* the game with its teardown: beforeunload disposes the game, and the page
\* may live on (the unload can be cancelled)
TeardownNext == Next \/ Dispose

TeardownSpec == Init /\ [][TeardownNext]_vars

\* The running loop with no input event.
NextNoInput == FrameUpdate \/ FramePhysics \/ FrameRender

\* animate runs its three phases to completion and ends by requesting the
\* next animation frame, so while the loop runs the frame always advances.
FrameAdvances ==
    framePc' = (IF framePc = "idle" THEN "updated"
                ELSE IF framePc = "updated" THEN "stepped" ELSE "idle")

FairTicksSpec == Init /\ [][NextNoInput]_vars /\ WF_framePc(FrameAdvances)

\* Scenario C: the demo robot alone, its precision fixed at 0 (Math.random
\* returning 0.5 every time), every animation frame later than the last
ExactRobotNext ==
    \/ FrameUpdateWith(DtSet \ {0}, {0})
    \/ FramePhysics
    \/ FrameRender

ExactRobotInit == InitWith({0})

ExactRobotSpec == ExactRobotInit /\ [][ExactRobotNext]_vars

\* A frame in which a collaborator fails.  The renderer and the physics
\* engine are external: any call into them may throw.  animate catches the
\* error, logs it, calls pause() and returns without requesting a frame.
FrameError == "Error in animation loop"

\* the catch block: this.pause(), return
animateCatches(phase) ==
    /\ Commit(afterAnimate([Enter(Cur, phase) EXCEPT !.thrown = FrameError]))
    /\ isRunning' = FALSE
    /\ animationId' = 0
    /\ framePc' = "idle"
    /\ frameDt' = 0
    /\ frameTs' = 0
    /\ UNCHANGED subscribed

\* a requested frame runs and gameLogic.update throws at once (in its first
\* call into the renderer)
UpdateThrows ==
    /\ framePc = "idle"
    /\ isRunning
    /\ \E h \in rafPending :
         /\ rafPending' = (rafPending \ {h}) \ {animationId}
         /\ \E ts \in Timestamps(DtSet) : lastTime' = Rebased(ts)
    /\ animateCatches("update")

\* the catch block without pause(): the error is only logged
PhaseThrows_KeepsRunning ==
    /\ framePc \in {"updated", "stepped"}
    /\ Commit([Enter(Cur, IF framePc = "updated" THEN "PhysicsManager.step"
                          ELSE "RenderManager.render") EXCEPT !.thrown = FrameError])
    /\ framePc' = "idle"
    /\ frameDt' = 0
    /\ frameTs' = 0
    /\ UNCHANGED <<isRunning, lastTime, animationId, rafPending, subscribed>>

\* physicsManager.step or renderManager.render throws
PhaseThrows ==
    /\ framePc \in {"updated", "stepped"}
    /\ rafPending' = rafPending \ {animationId}
    /\ animateCatches(IF framePc = "updated" THEN "PhysicsManager.step"
                      ELSE "RenderManager.render")
    /\ UNCHANGED lastTime

FaultyNext ==
    \/ FrameUpdate \/ FramePhysics \/ FrameRender
    \/ Resume
    \/ UpdateThrows \/ PhaseThrows

FaultySpec == Init /\ [][FaultyNext]_vars

\* An EventSystem used on its own by a client that subscribes,
\* unsubscribes, emits and clears in any order

\* EventSystem.on(eventName, callback)
On ==
    \E e \in BusEvents, cb \in Callbacks :
        /\ listeners' = [listeners EXCEPT ![e] = add(@, cb)]
        /\ unsubscribers' = unsubscribers \cup {<<e, cb>>}
        /\ lastCall' = [NoCall EXCEPT !.op = "on", !.event = e, !.callback = cb]
        /\ UNCHANGED gameVars

\* the function on(eventName, callback) returned is called
Unsubscribe ==
    \E u \in unsubscribers :
        /\ listeners' = [listeners EXCEPT ![u[1]] = Values(delete(@, u[2]))]
        /\ lastCall' = [NoCall EXCEPT !.op = "unsubscribe", !.event = u[1],
                                      !.callback = u[2]]
        /\ UNCHANGED <<unsubscribers, gameVars>>

\* EventSystem.emit(eventName, data), the callbacks behaving as beh
Emit ==
    \E e \in BusEvents, data \in Payloads, beh \in [Callbacks -> Behaviours] :
        LET r == forEach(Walk(listeners[e]), 1, beh, data)
        IN  /\ listeners' = [listeners EXCEPT ![e] = Values(r.entries)]
            /\ lastCall' = [NoCall EXCEPT !.op = "emit", !.event = e, !.data = data,
                                          !.invoked = r.invoked, !.caught = r.caught,
                                          !.propagated = r.propagated,
                                          !.changed = r.changed]
            /\ UNCHANGED <<unsubscribers, gameVars>>

\* EventSystem.removeAllListeners(eventName)
RemoveAllListeners ==
    \E e \in BusEvents :
        /\ listeners' = [listeners EXCEPT ![e] = <<>>]
        /\ lastCall' = [NoCall EXCEPT !.op = "removeAllListeners", !.event = e]
        /\ UNCHANGED <<unsubscribers, gameVars>>

\* EventSystem.clear()
Clear ==
    /\ listeners' = [e \in BusEvents |-> <<>>]
    /\ lastCall' = [NoCall EXCEPT !.op = "clear"]
    /\ UNCHANGED <<unsubscribers, gameVars>>

BusNext == On \/ Unsubscribe \/ Emit \/ RemoveAllListeners \/ Clear

\* the robot's precision plays no part here: one constructed game is enough
BusInit == InitWith({CHOOSE r \in Precisions : TRUE})

BusSpec == BusInit /\ [][BusNext]_vars

\* A human game left alone: the one placement input that starts the game
\* out of the demo, then only animation frames, each later than the last.
StartByPlacement == isAutopilot /\ BlockPlaced

HumanIdleNext ==
    \/ StartByPlacement
    \/ FrameUpdateWith(DtSet \ {0}, Precisions)
    \/ FramePhysics
    \/ FrameRender

HumanIdleSpec == Init /\ [][HumanIdleNext]_vars /\ WF_framePc(FrameAdvances)

---------------------------------------------------------------------------
(* Vocabulary of the properties *)

Called(name) == \E i \in 1..Len(calls) : calls[i] = name

Emitted(name) == \E i \in 1..Len(emitted) : emitted[i].name = name

\* overlap of the top block with the layer below it, along the top's axis
TopOverlap ==
    LET t == stack[Len(stack)]
        p == stack[Len(stack) - 1]
        topCoord == IF t.direction = "x" THEN t.x ELSE t.z
        prevCoord == IF t.direction = "x" THEN p.x ELSE p.z
        size == IF t.direction = "x" THEN t.width ELSE t.depth
    IN  size - Abs(topCoord - prevCoord)

\* the step took the top block off the stack and ended the game
MissHappens ==
    /\ Len(stack') = Len(stack) - 1
    /\ Len(overhangs') = Len(overhangs) + 1
    /\ isGameEnded'

\* the step kept the top block and put a new layer on it
CutHappens ==
    /\ Len(stack') = Len(stack) + 1
    /\ Len(overhangs') = Len(overhangs) + 1
    /\ ~isGameEnded'

---------------------------------------------------------------------------
\* C1: every placement attempt made while the game is not ended and the
\* stack has at least 2 layers is a miss exactly when overlap <= 0 and a cut
\* exactly when overlap > 0 (overlap = size - |delta| along the top's axis).
C1_MissExactlyWhenNoOverlap ==
    [][ (Called("splitBlockAndAddNext")' /\ ~isGameEnded /\ Len(stack) >= 2)
          => /\ (TopOverlap <= 0) <=> MissHappens
             /\ (TopOverlap > 0) <=> CutHappens
             /\ ~(MissHappens /\ CutHappens) ]_vars

\* a placement with overlap exactly 0 was made, and it was a miss
C1_Witness ==
    /\ split.called /\ split.overlap = 0
    /\ Called("missBlock") /\ isGameEnded

---------------------------------------------------------------------------
\* C2: in every cut, kept extent + overhang extent along the cut axis equals
\* the pre-cut extent, and along the other axis both the kept block and the
\* overhang keep the pre-cut extent.
C2_CutConservesExtent ==
    [][ Called("cutAndContinue")'
          => LET n == Len(stack)
                 before == stack[n]
                 kept == stack'[n]
                 hang == overhangs'[Len(overhangs')]
             IN  IF before.direction = "x"
                 THEN /\ kept.width + hang.width = before.width
                      /\ kept.depth = before.depth
                      /\ hang.depth = before.depth
                 ELSE /\ kept.depth + hang.depth = before.depth
                      /\ kept.width = before.width
                      /\ hang.width = before.width ]_vars

\* a cut that really split the block: both parts have positive extent
C2_Witness ==
    /\ Called("cutAndContinue")
    /\ split.overhangSize > 0 /\ split.overlap > 0
    /\ Len(stack) = 4

---------------------------------------------------------------------------
\* C3: stack[0] has no axis, stack[1] has axis X, and every later layer has
\* the axis opposite to the layer below it, in every reachable state.
C3_AxisAlternates ==
    /\ Len(stack) >= 1 => stack[1].direction = "null"
    /\ Len(stack) >= 2 => stack[2].direction = "x"
    /\ \A i \in 3..Len(stack) :
          {stack[i].direction, stack[i - 1].direction} = {"x", "z"}

\* a stack whose layers 1, 2, 3 slide on X, Z, X after cuts of different sizes
C3_Witness ==
    /\ Len(stack) = 4
    /\ stack[2].width # stack[3].depth
    /\ stack[4].direction = "x"

---------------------------------------------------------------------------
\* C4: the score starts at 0, every successful placement raises it by exactly
\* one (so N placements give N), a reset puts it back to 0 and no other step
\* changes it: it never decreases except in a reset.
C4_ScoreCountsPlacements ==
    /\ score = 0
    /\ [][ /\ Called("startGame")' => score' = 0
           /\ (CutHappens /\ ~Called("startGame")') => score' = score + 1
           /\ (~CutHappens /\ ~Called("startGame")') => score' = score
           /\ ~Called("startGame")' => score' >= score ]_vars

\* two successful placements in a row since the start
C4_Witness == score = 2 /\ Called("cutAndContinue") /\ Len(stack) = 4

---------------------------------------------------------------------------
\* C5 as stated: at every settled moment (between two completed operations)
\* the score equals stack.length - 1.
C5_ScoreIsLengthMinusOne ==
    framePc = "idle" => score = Len(stack) - 1

\* C5 as amended: at every settled moment the score equals stack.length - 2
\* while the game is not ended (the sliding top layer is not counted), and
\* stack.length - 1 once a miss has ended it (the miss removed that layer).
C5_ScoreFollowsStackLength ==
    framePc = "idle" =>
        score = (IF isGameEnded THEN Len(stack) - 1 ELSE Len(stack) - 2)

\* settled after two placements and a miss: score 2, three layers left
C5_Witness ==
    /\ framePc = "idle" /\ isGameEnded
    /\ score = 2 /\ Len(stack) = 3

---------------------------------------------------------------------------
\* C6: every miss (from a placement or from the out-of-bounds check) removes
\* exactly the top layer and appends none, adds exactly one overhang with the
\* missed block's current x/z position and full width and depth, removes the
\* missed block's body and mesh, ends the game and leaves the score alone.
C6_MissEffects ==
    [][ Called("missBlock")'
          => LET n == Len(stack)
                 missed == stack[n]
                 moved == IF Called("moveBlock")'
                          THEN (MOVEMENT_SPEED_PER_S * frameDt' * Scale) \div 1000
                          ELSE 0
                 hang == overhangs'[Len(overhangs')]
             IN  /\ stack' = SubSeq(stack, 1, n - 1)
                 /\ Len(overhangs') = Len(overhangs) + 1
                 /\ \A i \in 1..Len(overhangs) : overhangs'[i].id = overhangs[i].id
                 /\ hang.x = missed.x + (IF missed.direction = "x" THEN moved ELSE 0)
                 /\ hang.z = missed.z + (IF missed.direction = "z" THEN moved ELSE 0)
                 /\ hang.y = missed.y
                 /\ hang.width = missed.width /\ hang.depth = missed.depth
                 /\ hang.id # missed.id
                 /\ hang.id \in world' /\ hang.id \in scene'
                 /\ missed.id \notin world' /\ missed.id \notin scene'
                 /\ isGameEnded'
                 /\ score' = score ]_vars

\* a block that slid out of bounds in a tick and was missed there, after a
\* successful placement
C6_Witness ==
    /\ Called("missBlock") /\ Called("moveBlock")
    /\ Len(overhangs) = 2 /\ score = 1

---------------------------------------------------------------------------
\* C7: GAME_OVER is emitted in exactly the steps where a miss occurs while
\* isAutopilot is false, once per such step; an ended game stays silent, so
\* between two resets it is emitted at most once.
C7_GameOverExactlyOnHumanMiss ==
    [][ /\ Emitted("game_over")' <=> (MissHappens /\ Called("missBlock")' /\ ~isAutopilot)
        /\ Emitted("game_over")'
             => /\ Cardinality({ i \in 1..Len(emitted') : emitted'[i].name = "game_over" }) = 1
                /\ ~isGameEnded /\ isGameEnded'
        /\ (isGameEnded /\ ~Called("startGame")')
             => (isGameEnded' /\ ~Emitted("game_over")') ]_vars

\* a human miss that emitted GAME_OVER
C7_Witness ==
    /\ Emitted("game_over") /\ Called("missBlock")
    /\ ~isAutopilot /\ isGameEnded

---------------------------------------------------------------------------
\* C8: the phase leaves ENDED only in a startGame step; after startGame the
\* game is not ended, not in autopilot, score 0, no overhangs, and the stack
\* is the two seed layers (base 3x3 at (0,0,0) without axis; 3x3 at x=-10,
\* z=0, height 1, axis X), with GAME_START then SCORE_UPDATE(0) emitted.
C8_OnlyStartGameRestarts ==
    [][ /\ (isGameEnded /\ ~isGameEnded') => Called("startGame")'
        /\ Called("startGame")'
             => /\ ~isGameEnded' /\ ~isAutopilot' /\ score' = 0
                /\ overhangs' = <<>>
                /\ Len(stack') = 2
                /\ stack'[1].x = 0 /\ stack'[1].y = 0 /\ stack'[1].z = 0
                /\ stack'[1].width = 3 * Scale /\ stack'[1].depth = 3 * Scale
                /\ stack'[1].direction = "null"
                /\ stack'[2].x = -10 * Scale /\ stack'[2].y = 1 * Scale
                /\ stack'[2].z = 0
                /\ stack'[2].width = 3 * Scale /\ stack'[2].depth = 3 * Scale
                /\ stack'[2].direction = "x"
                /\ \E i, j \in 1..Len(emitted') :
                      /\ i < j
                      /\ emitted'[i].name = "game_start"
                      /\ emitted'[j] = [name |-> "score_update", data |-> 0] ]_vars

\* a reset requested directly (GAME_RESET), leaving a fresh human game
C8_Witness ==
    /\ Called("startGame") /\ ~Called("handleBlockPlacement")
    /\ ~isGameEnded /\ Len(stack) = 2

---------------------------------------------------------------------------
\* C9 as stated: in autopilot, whenever a miss has ended the game, ticks
\* alone (no input) eventually bring the engine back to a non-ended phase.
C9_AutopilotRestarts ==
    (isAutopilot /\ isGameEnded) ~> ~isGameEnded

\* C9 as amended: in autopilot, once a miss has ended the game no tick
\* restarts it: without input the engine stays in autopilot and ENDED, and
\* its stack and score never change again.
C9_AutopilotStaysEnded ==
    [][ (isAutopilot /\ isGameEnded)
          => /\ isAutopilot' /\ isGameEnded'
             /\ stack' = stack
             /\ score' = score
             /\ Len(overhangs') = Len(overhangs) ]_vars

\* the autopilot has missed with layers left, and a later tick attempted a
\* placement that was ignored
C9_Witness ==
    /\ isAutopilot /\ isGameEnded
    /\ Called("splitBlockAndAddNext") /\ ~Called("missBlock")
    /\ Len(stack) >= 2

---------------------------------------------------------------------------
\* C10: after the update of every tick, in every phase and for every stack
\* length, every overhang's mesh has the position and orientation of its
\* physics body.
C10_OverhangsSyncedEveryTick ==
    framePc = "updated" =>
        \A i \in 1..Len(overhangs) : overhangs[i].mesh = overhangs[i].body

---------------------------------------------------------------------------
\* C11: after every cut with delta # 0, the kept block is centred at the
\* pre-cut coordinate - delta/2 along the cut axis, the overhang is centred
\* at the kept centre + sign(delta) * (overlap/2 + overhangSize/2), and the
\* two intervals share exactly one edge and together cover exactly the
\* pre-cut interval of the block.  (Centres are compared doubled, so that no
\* half is taken in the comparison.)
C11_CutGeometry ==
    [][ Called("cutAndContinue")'
          => LET n == Len(stack)
                 before == stack[n]
                 kept == stack'[n]
                 hang == overhangs'[Len(overhangs')]
                 onX == before.direction = "x"
                 preC == IF onX THEN before.x ELSE before.z
                 preW == IF onX THEN before.width ELSE before.depth
                 prevC == IF onX THEN stack[n - 1].x ELSE stack[n - 1].z
                 delta == preC - prevC
                 keptC == IF onX THEN kept.x ELSE kept.z
                 keptW == IF onX THEN kept.width ELSE kept.depth
                 hangC == IF onX THEN hang.x ELSE hang.z
                 hangW == IF onX THEN hang.width ELSE hang.depth
             IN  delta # 0
                   => /\ 2 * keptC = 2 * preC - delta
                      /\ 2 * hangC = 2 * keptC + (IF delta > 0 THEN 1 ELSE -1) * (keptW + hangW)
                      /\ keptW > 0 /\ hangW > 0
                      /\ IF delta > 0
                         THEN /\ 2 * keptC + keptW = 2 * hangC - hangW
                              /\ 2 * keptC - keptW = 2 * preC - preW
                              /\ 2 * hangC + hangW = 2 * preC + preW
                         ELSE /\ 2 * hangC + hangW = 2 * keptC - keptW
                              /\ 2 * hangC - hangW = 2 * preC - preW
                              /\ 2 * keptC + keptW = 2 * preC + preW ]_vars

\* Scenario A: the first block placed at x = 1 over the base at x = 0 keeps
\* width 2 at x = 0.5, drops an overhang of width 1 at x = 2, score 1
C11_Witness ==
    /\ Called("cutAndContinue") /\ split.delta = Scale
    /\ Len(stack) = 3 /\ score = 1
    /\ 2 * stack[2].x = Scale /\ stack[2].width = 2 * Scale
    /\ overhangs[Len(overhangs)].x = 2 * Scale
    /\ overhangs[Len(overhangs)].width = Scale

---------------------------------------------------------------------------
\* C12: every overhang has width > 0 and depth > 0, and its body has a
\* strictly positive mass equal to BOX_FALL_MASS * (width/3) * (depth/3)
\* (mass is kept as the numerator over (3 * Scale)^2), also after a perfectly
\* aligned placement (delta = 0).
C12_OverhangsHaveExtentAndMass ==
    \A i \in 1..Len(overhangs) :
        /\ overhangs[i].width > 0
        /\ overhangs[i].depth > 0
        /\ overhangs[i].mass > 0
        /\ overhangs[i].mass = BOX_FALL_MASS * overhangs[i].width * overhangs[i].depth

---------------------------------------------------------------------------
\* C13 as stated: after every successful cut the new layer has the width and
\* depth of the just-cut top block, sits at height BOX_HEIGHT * (its stack
\* index), and is positioned along its own (alternated) axis at the
\* coordinate of the cut top block and along the other axis at -10.
C13_NewLayerOnOwnAxisAtTop ==
    [][ Called("cutAndContinue")'
          => LET n == Len(stack)
                 kept == stack'[n]
                 new == stack'[n + 1]
                 onX == new.direction = "x"
             IN  /\ new.width = kept.width /\ new.depth = kept.depth
                 /\ new.y = BOX_HEIGHT * Scale * n
                 /\ (IF onX THEN new.x ELSE new.z) = (IF onX THEN kept.x ELSE kept.z)
                 /\ (IF onX THEN new.z ELSE new.x) = SPAWN_OFFSET * Scale ]_vars

\* C13 as amended: after every successful cut the new layer has the width
\* and depth of the just-cut top block, sits at height BOX_HEIGHT * (its stack
\* index), and is positioned along its own (alternated) axis at the spawn
\* offset -10, and along the other axis (the axis of the cut) at the
\* coordinate of the cut top block.
C13_NewLayerSpawnsOnOwnAxis ==
    [][ Called("cutAndContinue")'
          => LET n == Len(stack)
                 kept == stack'[n]
                 new == stack'[n + 1]
                 onX == new.direction = "x"
             IN  /\ Len(stack') = n + 1
                 /\ new.width = kept.width /\ new.depth = kept.depth
                 /\ new.y = BOX_HEIGHT * Scale * n
                 /\ new.direction # stack[n].direction
                 /\ (IF onX THEN new.x ELSE new.z) = SPAWN_OFFSET * Scale
                 /\ (IF onX THEN new.z ELSE new.x) = (IF onX THEN kept.z ELSE kept.x) ]_vars

\* a block cut along Z off centre, and the X layer spawned on it
C13_Witness ==
    /\ Called("cutAndContinue") /\ Len(stack) = 4
    /\ stack[4].direction = "x" /\ stack[4].x = SPAWN_OFFSET * Scale
    /\ stack[3].z # 0 /\ stack[4].z = stack[3].z
    /\ stack[4].depth = stack[3].depth /\ stack[4].depth < ORIGINAL_BOX_SIZE * Scale

---------------------------------------------------------------------------
\* C14: in every animation frame executed while the loop is running the
\* three phases happen exactly once each, in the order game-logic update,
\* physics step, render, the update and the step with the same dt; all three
\* complete before the next frame is requested, and no frame begins while
\* another is in progress.
C14_FramePhasesInOrder ==
    /\ [](framePc # "idle" => (isRunning /\ rafPending = {}))
    /\ [][ /\ framePc = "idle" /\ framePc' # "idle"
             => /\ framePc' = "updated"
                /\ calls'[1] = "update"
                /\ \E r \in Precisions :
                     LET g == update(Cur, frameDt', r)
                     IN  /\ stack' = g.stack
                         /\ overhangs' = g.overhangs
                         /\ robotPrecision' = g.robotPrecision
           /\ framePc = "updated" /\ framePc' # "updated"
             => /\ framePc' = "stepped"
                /\ calls' = <<"PhysicsManager.step">>
                /\ frameDt' = frameDt
                /\ stack' = stack
                /\ overhangs' = step(Cur, frameDt).overhangs
           /\ framePc = "stepped" /\ framePc' # "stepped"
             => /\ framePc' = "idle"
                /\ calls' = <<"RenderManager.render">>
                /\ stack' = stack /\ overhangs' = overhangs
                /\ rafPending' # {} /\ animationId' \in rafPending'
           /\ framePc # "idle" /\ framePc' = framePc
             => UNCHANGED vars ]_vars

\* the physics step of a frame with dt > 0 has just let an overhang fall
C14_Witness ==
    /\ framePc = "stepped" /\ frameDt > 0
    /\ Called("PhysicsManager.step")
    /\ \E i \in 1..Len(overhangs) : overhangs[i].body.rot > 0

---------------------------------------------------------------------------
\* the step begins a tick (a frame enters its update phase)
TickBegins == framePc = "idle" /\ framePc' = "updated"

\* C15 as stated: the first tick after start() and after every resume() runs
\* with dt = 0; in every later tick dt equals the current frame timestamp
\* minus the previous tick's timestamp and is never negative.
C15_LaterTicksUseDifference ==
    [][ TickBegins
          => /\ frameDt' >= 0
             /\ IF ~isRunning THEN frameDt' = 0
                ELSE frameDt' = frameTs' - lastTime ]_vars

\* C15 as amended: start() and resume() run a tick at once with timestamp 0
\* and dt = 0, and the first animation frame after it runs with dt = 0 as
\* well, whatever its timestamp and whatever time elapsed while paused; in
\* every later tick dt equals the current frame timestamp minus the previous
\* tick's timestamp and is never negative.
C15_FirstTwoTicksHaveNoDelta ==
    [][ TickBegins
          => /\ frameDt' >= 0
             /\ IF ~isRunning THEN frameDt' = 0 /\ frameTs' = 0 /\ lastTime' = 0
                ELSE IF lastTime = 0 THEN frameDt' = 0 /\ frameTs' > 0 /\ lastTime' > 0
                ELSE frameDt' = frameTs' - lastTime /\ lastTime' > 0 ]_vars

\* the tick that resume() runs in the middle of a game: timestamp 0, dt 0
C15_Witness ==
    /\ framePc = "updated" /\ isRunning
    /\ frameTs = 0 /\ frameDt = 0 /\ lastTime = 0
    /\ score >= 1

---------------------------------------------------------------------------
\* C16: every operation invoked on a physics or render manager that is not
\* initialized (createBoxBody, step, clearBodies, render) fails fast with a
\* 'not initialized' error and leaves the world unchanged, rather than
\* silently doing nothing.
C16_UninitializedFailsFast ==
    [][ /\ ( /\ ~physicsInitialized
             /\ \/ Called("PhysicsManager.createBoxBody")'
                \/ Called("PhysicsManager.step")'
                \/ Called("PhysicsManager.clearBodies")' )
           => (thrown' # "" /\ world' = world)
        /\ (~renderInitialized /\ Called("RenderManager.render")')
           => (thrown' # "" /\ scene' = scene) ]_vars

---------------------------------------------------------------------------
\* coordinate of the top block minus that of the layer below, on the top's axis
TopDelta ==
    LET t == stack[Len(stack)]
    IN  getPosition(t, t.direction) - getPosition(stack[Len(stack) - 1], t.direction)

\* C17 as stated: in autopilot with robotPrecision fixed at 0 and ticks with
\* dt > 0, every autopilot placement is a successful cut, never a miss, and
\* the phase never becomes ENDED.
C17_ExactRobotNeverMisses ==
    /\ ~isGameEnded
    /\ Called("splitBlockAndAddNext") => Called("cutAndContinue")

\* C17 as amended: in autopilot with robotPrecision fixed at 0 the block
\* moves only while it is short of the layer below, so after every move
\* delta < speed * dt of that tick, and it is placed in the first tick that
\* finds delta >= 0; the placement is a successful cut that increments the
\* score when delta < size, and a miss that ends the game when delta >= size.
C17_ExactRobotOvershootsLessThanAStep ==
    [][ /\ (Called("moveBlock")' /\ Len(stack') = Len(stack))
           => /\ TopDelta < 0
              /\ TopDelta' = TopDelta + moveDistance(frameDt')
              /\ TopDelta' < moveDistance(frameDt')
        /\ (Called("splitBlockAndAddNext")' /\ ~isGameEnded)
           => /\ isAutopilot /\ robotPrecision = 0
              /\ TopDelta >= 0
              /\ split'.delta = TopDelta
              /\ IF TopDelta < split'.size
                 THEN CutHappens /\ score' = score + 1
                 ELSE MissHappens ]_vars

\* the robot, precision 0, carried past the layer below by one long tick:
\* its placement is a miss
C17_Witness ==
    /\ isAutopilot /\ robotPrecision = 0
    /\ split.called /\ split.delta >= split.size
    /\ Called("missBlock") /\ isGameEnded

---------------------------------------------------------------------------
\* C18: in each tick with at least 2 layers the top block is advanced along
\* its own axis by speed * dt if and only if the game is not ended and either
\* the engine is not in autopilot or the top's coordinate is strictly less
\* than the previous layer's coordinate plus robotPrecision; when it is not
\* advanced and the engine is in autopilot, a placement is attempted in the
\* same tick; no other block of the stack changes position in a tick.
C18_TopAdvancesIffShouldMove ==
    [][ /\ (TickBegins /\ Len(stack) >= 2)
           => LET n == Len(stack)
                  t == stack[n]
                  onX == t.direction = "x"
                  topCoord == IF onX THEN t.x ELSE t.z
                  prevCoord == IF onX THEN stack[n - 1].x ELSE stack[n - 1].z
                  dist == (MOVEMENT_SPEED_PER_S * frameDt' * Scale) \div 1000
                  advanced == IF onX THEN [t EXCEPT !.x = @ + dist, !.mesh.x = @ + dist,
                                                     !.body.x = @ + dist]
                              ELSE [t EXCEPT !.z = @ + dist, !.mesh.z = @ + dist,
                                             !.body.z = @ + dist]
                  shouldMove == /\ ~isGameEnded
                                /\ \/ ~isAutopilot
                                   \/ topCoord < prevCoord + robotPrecision
              IN  /\ shouldMove <=> Called("moveBlock")'
                  /\ shouldMove
                       => \/ /\ Len(stack') = n
                             /\ stack'[n] = advanced
                             /\ Abs(topCoord + dist) <= OUT_OF_BOUNDS * Scale
                          \/ /\ MissHappens
                             /\ overhangs'[Len(overhangs')].x = advanced.x
                             /\ overhangs'[Len(overhangs')].z = advanced.z
                  /\ (~shouldMove /\ isAutopilot) => Called("splitBlockAndAddNext")'
                  /\ (~shouldMove /\ ~isAutopilot) => stack' = stack
                  /\ \A i \in 1..(n - 1) : stack'[i] = stack[i]
        /\ framePc # "idle" => stack' = stack ]_vars

\* the robot found the block at its target, did not advance it and placed it
\* in the same tick, after ticks that advanced it
C18_Witness ==
    /\ framePc = "updated" /\ isAutopilot
    /\ ~Called("moveBlock") /\ Called("splitBlockAndAddNext")
    /\ Called("cutAndContinue") /\ split.delta > 0
    /\ Len(stack) = 3

---------------------------------------------------------------------------
\* C19: in a game that is not ended the top block's coordinate along its axis
\* has magnitude at most 10; a move whose resulting coordinate has magnitude
\* strictly greater than 10 is turned into a miss within the same tick, and a
\* move that leaves the block at exactly -10 or exactly +10 is not a miss.
C19_TopStaysWithinBound ==
    /\ []( (~isGameEnded /\ Len(stack) >= 2)
             => Abs(getPosition(stack[Len(stack)], stack[Len(stack)].direction))
                  <= 10 * Scale )
    /\ [][ (TickBegins /\ Called("moveBlock")')
             => LET t == stack[Len(stack)]
                    dist == (MOVEMENT_SPEED_PER_S * frameDt' * Scale) \div 1000
                    result == (IF t.direction = "x" THEN t.x ELSE t.z) + dist
                IN  IF Abs(result) > 10 * Scale
                    THEN MissHappens /\ Called("missBlock")'
                    ELSE /\ Len(stack') = Len(stack)
                         /\ stack'[Len(stack)].id = t.id
                         /\ isGameEnded' = isGameEnded ]_vars

\* a block that a move has left exactly on the bound +10, still in play
C19_Witness ==
    /\ Called("moveBlock") /\ ~isGameEnded /\ ~isAutopilot
    /\ Len(stack) >= 2
    /\ getPosition(stack[Len(stack)], stack[Len(stack)].direction) = 10 * Scale

---------------------------------------------------------------------------
\* C20: in a started (non-autopilot) game that is not ended and receives no
\* placement input, under fair ticks with dt > 0, the sliding block
\* eventually leaves the bound: the game reaches ENDED and GAME_OVER is
\* emitted; a human game cannot stay in play forever without input.
C20_IdleHumanGameEnds ==
    (~isAutopilot /\ ~isGameEnded) ~> (isGameEnded /\ Emitted("game_over"))

\* the block of an idle human game has slid past +10: missed, GAME_OVER
C20_Witness ==
    /\ ~isAutopilot /\ isGameEnded
    /\ Called("moveBlock") /\ Called("missBlock") /\ Emitted("game_over")
    /\ overhangs[Len(overhangs)].x > 10 * Scale

---------------------------------------------------------------------------
\* the SCORE_UPDATE notifications of the step, in order
ScoreUpdates(events) ==
    SelectSeq(events, LAMBDA e : e.name = "score_update")

\* C21: every successful cut publishes exactly one SCORE_UPDATE, whose value
\* is the stored score and equals stack.length - 2 once the new layer has
\* been appended; a miss publishes no SCORE_UPDATE.
C21_CutPublishesScoreOnce ==
    [][ /\ Called("cutAndContinue")'
           => /\ Len(ScoreUpdates(emitted')) = 1
              /\ ScoreUpdates(emitted')[1].data = score'
              /\ score' = Len(stack') - 2
              /\ Len(stack') = Len(stack) + 1
        /\ Called("missBlock")'
           => /\ ScoreUpdates(emitted') = <<>>
              /\ score' = score ]_vars

\* the first cut of a human game has published SCORE_UPDATE(1)
C21_Witness ==
    /\ Called("cutAndContinue") /\ ~isAutopilot
    /\ Len(stack) = 3
    /\ ScoreUpdates(emitted) = << [name |-> "score_update", data |-> 1] >>

---------------------------------------------------------------------------
\* C22 as stated: on every cut the overhang's coordinate along the cut axis
\* is the top block's ORIGINAL pre-cut coordinate plus
\* sign(delta) * (overlap/2 + overhangSize/2), and its coordinate along the
\* other axis is the top block's.  (Coordinates are compared doubled.)
C22_OverhangFromPreCutCoordinate ==
    [][ Called("cutAndContinue")'
          => LET n == Len(stack)
                 before == stack[n]
                 hang == overhangs'[Len(overhangs')]
                 onX == before.direction = "x"
                 delta == split'.delta
                 sign == IF delta > 0 THEN 1 ELSE IF delta < 0 THEN -1 ELSE 0
                 shift2 == sign * (split'.overlap + split'.overhangSize)
             IN  /\ 2 * (IF onX THEN hang.x ELSE hang.z)
                      = 2 * (IF onX THEN before.x ELSE before.z) + shift2
                 /\ (IF onX THEN hang.z ELSE hang.x)
                      = (IF onX THEN before.z ELSE before.x) ]_vars

\* C22 as amended: on every cut the overhang's coordinate along the cut axis
\* is the kept block's coordinate after the cut, which is the pre-cut
\* coordinate - delta/2, plus sign(delta) * (overlap/2 + overhangSize/2); its
\* coordinate along the other axis is the top block's.
C22_OverhangFromKeptCoordinate ==
    [][ Called("cutAndContinue")'
          => LET n == Len(stack)
                 before == stack[n]
                 kept == stack'[n]
                 hang == overhangs'[Len(overhangs')]
                 onX == before.direction = "x"
                 delta == split'.delta
                 sign == IF delta > 0 THEN 1 ELSE IF delta < 0 THEN -1 ELSE 0
                 shift2 == sign * (split'.overlap + split'.overhangSize)
                 preC == IF onX THEN before.x ELSE before.z
                 prevC == IF onX THEN stack[n - 1].x ELSE stack[n - 1].z
             IN  /\ delta = preC - prevC
                 /\ split'.overlap = split'.size - Abs(delta)
                 /\ split'.overhangSize = Abs(delta)
                 /\ 2 * (IF onX THEN kept.x ELSE kept.z) = 2 * preC - delta
                 /\ 2 * (IF onX THEN hang.x ELSE hang.z) = 2 * preC - delta + shift2
                 /\ (IF onX THEN hang.z ELSE hang.x)
                      = (IF onX THEN before.z ELSE before.x)
                 /\ (IF onX THEN kept.z ELSE kept.x)
                      = (IF onX THEN before.z ELSE before.x) ]_vars

\* a block placed short of the layer below (delta < 0): its overhang lies on
\* the negative side of the kept block
C22_Witness ==
    /\ Called("cutAndContinue") /\ split.delta < 0
    /\ Len(stack) = 3
    /\ overhangs[Len(overhangs)].x < stack[2].x
    /\ 2 * overhangs[Len(overhangs)].x
         = 2 * stack[2].x - (split.overlap + split.overhangSize)

---------------------------------------------------------------------------
\* C23: the camera's vertical position never decreases from one tick to the
\* next, also when a miss has shrunk the stack and lowered the follow target;
\* it increases, by CAMERA_FOLLOW_SPEED * dt, only in ticks that find it
\* below BOX_HEIGHT * (stack.length - 2) + 4, and it decreases only in a
\* reset (resetCamera in startGame, back to 4).
C23_CameraNeverSinks ==
    [][ /\ cameraY' < cameraY => Called("startGame")'
        /\ Called("startGame")' => cameraY' = 4 * Scale
        /\ (TickBegins /\ Len(stack) >= 2)
             => cameraY' =
                  (IF cameraY < BOX_HEIGHT * Scale * (Len(stack) - 2) + 4 * Scale
                   THEN cameraY + (CAMERA_FOLLOW_SPEED_PER_S * frameDt' * Scale) \div 1000
                   ELSE cameraY)
        /\ (~Called("startGame")' /\ ~(TickBegins /\ Len(stack) >= 2))
             => cameraY' = cameraY ]_vars

\* a tick after a miss: the camera is above the lowered follow line and stays
C23_Witness ==
    /\ framePc = "updated" /\ Called("update") /\ ~Called("missBlock")
    /\ isGameEnded /\ frameDt > 0 /\ Len(stack) >= 2
    /\ cameraY > BOX_HEIGHT * Scale * (Len(stack) - 2) + 4 * Scale

---------------------------------------------------------------------------
\* C24: a placement input received while the engine is in autopilot never
\* cuts or misses the autopilot's block, it performs startGame instead; and
\* once isAutopilot has become false it never becomes true again, under any
\* sequence of inputs, resets, misses and ticks.
C24_PlacementInAutopilotStartsGame ==
    [][ /\ (Called("handleBlockPlacement")' /\ isAutopilot)
           => /\ Called("startGame")'
              /\ ~Called("splitBlockAndAddNext")'
              /\ ~Called("cutAndContinue")' /\ ~Called("missBlock")'
              /\ ~isAutopilot' /\ ~isGameEnded' /\ score' = 0
              /\ Len(stack') = 2 /\ overhangs' = <<>>
        /\ ~isAutopilot => ~isAutopilot' ]_vars

\* a placement input has started the human game out of the demo
C24_Witness ==
    /\ Called("handleBlockPlacement") /\ Called("startGame")
    /\ ~isAutopilot /\ ~isGameEnded /\ Len(stack) = 2 /\ score = 0

---------------------------------------------------------------------------
\* C25: a placement input received in a non-autopilot game that is ended, or
\* whose stack has fewer than 2 layers, changes nothing: stack, overhangs,
\* score, phase, block sizes and positions are unchanged and no notification
\* is emitted.
C25_PlacementInEndedGameIsIgnored ==
    [][ ( /\ Called("handleBlockPlacement")'
          /\ ~isAutopilot
          /\ (isGameEnded \/ Len(stack) < 2) )
          => /\ UNCHANGED <<stack, overhangs, score, isGameEnded, isAutopilot>>
             /\ UNCHANGED <<world, scene, cameraY, robotPrecision>>
             /\ emitted' = <<>>
             /\ ~Called("cutAndContinue")' /\ ~Called("missBlock")'
             /\ ~Called("startGame")' ]_vars

\* a placement input arrived after a human game with placed layers ended
C25_Witness ==
    /\ Called("handleBlockPlacement") /\ Called("splitBlockAndAddNext")
    /\ ~isAutopilot /\ isGameEnded
    /\ emitted = <<>> /\ Len(stack) >= 2 /\ score >= 1

---------------------------------------------------------------------------
\* the bodies (and meshes) owned by the blocks of the stack and the overhangs
OwnedIds ==
    { stack[i].id : i \in 1..Len(stack) }
      \cup { overhangs[i].id : i \in 1..Len(overhangs) }

\* C26: in every reachable state the bodies in the physics world are exactly
\* the bodies of the blocks in stack and overhangs, one distinct body per
\* block (world body count = stack.length + overhangs.length), and the
\* meshes in the scene are exactly the meshes of those blocks; after a miss
\* or a reset no body or mesh of a removed block remains.
C26_WorldAndSceneHoldTheBlocks ==
    /\ world = OwnedIds
    /\ scene = OwnedIds
    /\ Cardinality(world) = Len(stack) + Len(overhangs)
    /\ Cardinality(scene) = Len(stack) + Len(overhangs)

\* after a miss: the missed block left the world, its overhang entered it
C26_Witness ==
    /\ Called("missBlock") /\ isGameEnded
    /\ Len(stack) = 2 /\ Len(overhangs) = 2
    /\ Cardinality(world) = 4
    /\ overhangs[2].id \in world

---------------------------------------------------------------------------
\* C27: for every block in the stack, in every reachable state, the logical
\* position, the mesh position and the physics-body position are equal on
\* all three axes, the body has mass 0, and y equals BOX_HEIGHT times the
\* block's index in the stack; moves and cuts change the three positions by
\* the same amount in the same step.
C27_StackBlocksStayAligned ==
    /\ [](\A i \in 1..Len(stack) :
            LET b == stack[i]
            IN  /\ b.mesh.x = b.x /\ b.mesh.y = b.y /\ b.mesh.z = b.z
                /\ b.body.x = b.x /\ b.body.y = b.y /\ b.body.z = b.z
                /\ b.body.rot = 0 /\ b.mesh.rot = 0
                /\ b.mass = 0
                /\ b.y = BOX_HEIGHT * Scale * (i - 1))
    /\ [][ \A i \in 1..Len(stack) :
             (i <= Len(stack') /\ stack'[i].id = stack[i].id)
               => /\ stack'[i].mesh.x - stack[i].mesh.x = stack'[i].x - stack[i].x
                  /\ stack'[i].body.x - stack[i].body.x = stack'[i].x - stack[i].x
                  /\ stack'[i].mesh.z - stack[i].mesh.z = stack'[i].z - stack[i].z
                  /\ stack'[i].body.z - stack[i].body.z = stack'[i].z - stack[i].z
                  /\ stack'[i].y = stack[i].y ]_vars

\* a layer that slid along Z and was cut off centre, under the next layer
C27_Witness ==
    /\ Len(stack) = 4 /\ framePc = "idle"
    /\ stack[3].z # 0 /\ stack[3].depth < ORIGINAL_BOX_SIZE * Scale
    /\ stack[3].body.z = stack[3].z /\ stack[3].mesh.z = stack[3].z
    /\ stack[4].x > SPAWN_OFFSET * Scale

---------------------------------------------------------------------------
\* C28: under any interleaving of start, pause, resume, visibility changes
\* and frame callbacks, while the loop is paused no update, physics step or
\* render is executed, and at most one animation-frame callback is pending
\* at any time: a pause cancels the pending one.
C28_PausedLoopRunsNothing ==
    /\ [](Cardinality(rafPending) <= 1)
    /\ [](~isRunning => (rafPending = {} /\ animationId = 0 /\ framePc = "idle"))
    /\ []((isRunning /\ framePc = "idle") => rafPending = {animationId})
    /\ [][ (~isRunning /\ ~isRunning')
             => /\ ~Called("update")'
                /\ ~Called("PhysicsManager.step")'
                /\ ~Called("RenderManager.render")'
                /\ framePc' = "idle" ]_vars

\* the loop paused in the middle of a game: nothing pending
C28_Witness ==
    /\ ~isRunning /\ rafPending = {} /\ animationId = 0
    /\ lastTime > 0 /\ score >= 1 /\ ~isGameEnded

---------------------------------------------------------------------------
\* C29: if update, the physics step or render throws during a frame, the
\* loop catches the error, becomes paused (isRunning false) and requests no
\* further frame; the remaining phases of that frame are skipped, and no tick
\* runs again until resume/start.
C29_ErrorInFramePausesLoop ==
    /\ [](~isRunning => (framePc = "idle" /\ rafPending = {}))
    /\ [][ /\ thrown' = FrameError
             => /\ ~isRunning'
                /\ framePc' = "idle"
                /\ rafPending' = {} /\ animationId' = 0
                /\ Len(calls') = 1
                /\ stack' = stack /\ overhangs' = overhangs
           /\ (~isRunning /\ framePc' # "idle")
             => (isRunning' /\ frameTs' = 0 /\ frameDt' = 0 /\ lastTime' = 0) ]_vars

\* the physics step of a frame threw after the robot's cut: loop paused
C29_Witness ==
    /\ thrown = FrameError /\ Called("PhysicsManager.step")
    /\ ~isRunning /\ framePc = "idle" /\ rafPending = {}
    /\ score >= 1 /\ Len(overhangs) >= 1

---------------------------------------------------------------------------
\* C30: in every settled state (no frame in progress) the score the UI
\* shows, UIManager.score, equals the engine's score, GameLogic.score, under
\* any sequence of placements, misses, resets, ticks and pause/resume.
C30_UiShowsEngineScore ==
    framePc = "idle" => uiScore = score

---------------------------------------------------------------------------
(* EventSystem *)

\* the invocations that call every callback of the entries once, in
\* subscription order, with data
EachOnce(entries, data) ==
    [i \in 1..Len(entries) |-> [callback |-> entries[i], data |-> data]]

\* on() registers a callback once, and the function it returned takes the
\* callback out of the event, so that no emit invokes it until it is
\* subscribed again
SubscriptionsAreASet ==
    /\ lastCall'.op = "on"
         => /\ has(listeners'[lastCall'.event], lastCall'.callback)
            /\ has(listeners[lastCall'.event], lastCall'.callback)
                 => listeners' = listeners
            /\ Cardinality({ i \in 1..Len(listeners'[lastCall'.event]) :
                   listeners'[lastCall'.event][i] = lastCall'.callback }) = 1
    /\ lastCall'.op = "unsubscribe"
         => /\ ~has(listeners'[lastCall'.event], lastCall'.callback)
            /\ \A e \in BusEvents : e # lastCall'.event => listeners'[e] = listeners[e]
    /\ (lastCall'.op = "emit" /\ ~lastCall'.changed)
         => \A cb \in Callbacks :
              ~has(listeners[lastCall'.event], cb)
                 => \A i \in 1..Len(lastCall'.invoked) : lastCall'.invoked[i].callback # cb

\* C31 as stated: emit invokes every callback subscribed to the event when
\* it is called exactly once with the emitted data, whatever the callbacks
\* do; a callback that throws stops nothing and the error does not reach the
\* emitter; subscribing twice registers once; an unsubscribed callback is
\* not invoked by a later emit.
C31_EmitInvokesEverySubscribedOnce ==
    [][ /\ lastCall'.op = "emit"
          => /\ lastCall'.invoked = EachOnce(listeners[lastCall'.event], lastCall'.data)
             /\ ~lastCall'.propagated
        /\ SubscriptionsAreASet ]_vars

\* C31, amended: emit never lets a callback's error reach the emitter and
\* goes on after it; it invokes the first subscribed callback, and when no
\* callback changes the event's subscriptions during the emit it invokes
\* every subscribed callback exactly once, in subscription order, with the
\* emitted data (a callback unsubscribed by an earlier one in the same emit
\* is skipped, one subscribed during the emit is invoked by it); subscribing
\* twice registers once; an unsubscribed callback is not invoked by a later
\* emit until it is subscribed again.
C31_EmitInvokesEachOnceUnlessChanged ==
    [][ /\ lastCall'.op = "emit"
          => /\ ~lastCall'.propagated
             /\ ~lastCall'.changed
                  => lastCall'.invoked
                       = EachOnce(listeners[lastCall'.event], lastCall'.data)
             /\ listeners[lastCall'.event] # <<>>
                  => /\ lastCall'.invoked # <<>>
                     /\ lastCall'.invoked[1]
                          = [callback |-> listeners[lastCall'.event][1],
                             data |-> lastCall'.data]
             /\ \A i \in 1..Len(lastCall'.invoked) :
                  lastCall'.invoked[i].data = lastCall'.data
             /\ (\A i \in 1..Len(lastCall'.caught) :
                  \E j \in 1..Len(lastCall'.invoked) :
                      lastCall'.invoked[j].callback = lastCall'.caught[i])
        /\ SubscriptionsAreASet ]_vars

\* an emit whose first callback threw and whose second was invoked all the
\* same, with the payload
C31_Witness ==
    /\ lastCall.op = "emit" /\ lastCall.data = "payload"
    /\ Len(lastCall.invoked) = Cardinality(Callbacks)
    /\ lastCall.caught = << lastCall.invoked[1].callback >>
    /\ ~lastCall.changed /\ ~lastCall.propagated
    /\ Len(listeners[lastCall.event]) = Cardinality(Callbacks)


====
